---- MODULE Spec2Model ----
(***************************************************************************)
(* Verification model of the sourcify injector:                            *)
(*   src/src/server/services/Injector.ts   (the current pipeline)          *)
(*   src/src/injector.ts                   (the legacy pipeline)           *)
(*                                                                         *)
(* Text (file names, bytecode) is a sequence of one-character strings, so  *)
(* that slicing, the regular expressions and parseInt are computed as the  *)
(* code computes them.  A repository path is a sequence of segments, each  *)
(* a TLA+ string, in the normal form path.join produces.                   *)
(***************************************************************************)
EXTENDS Integers, Sequences, FiniteSets, TLC

\* ------------------------------------------------------------------ bounds
MaxNameLen == 8      \* longest file name typed in SpecSanitize
MaxCodeLen == 6      \* longest bytecode string typed in SpecCompare
MaxAddrs == 2        \* longest candidate address list of a submission
MaxFiles == 2        \* most files in one upload
MaxPairLen == 5      \* longest bytecode string of a pair typed in SpecComparePair
MaxSources == 2      \* most sources a descriptor of SpecAssemble declares
MaxEntries == 3      \* most entries in a trailer of SpecLocate

\* ------------------------------------------------------------ JS values
\* JavaScript's null and undefined where a text is expected: one-element
\* sequences no text equals (a text holds one-character strings only).
NULL == <<"null">>
UNDEFINED == <<"undefined">>
\* A status is "perfect", "partial" or null.
NULL_STATUS == "null"
\* parseInt's NaN; every number the model computes is >= 0.
NaN == -1

Max(a, b) == IF a >= b THEN a ELSE b
Min(a, b) == IF a <= b THEN a ELSE b

\* String.prototype.slice(start, end) for 0 <= start, any integer (or NaN) end:
\* a negative end counts from the end of the string, NaN is 0.
Slice(s, start, end) ==
  LET len == Len(s)
      e == IF end = NaN THEN 0
           ELSE IF end < 0 THEN Max(len + end, 0) ELSE Min(end, len)
      b == Min(start, len)
  IN IF e <= b THEN <<>> ELSE SubSeq(s, b + 1, e)

\* String.prototype.slice(-n): the last n characters (the whole string when shorter).
SliceLast(s, n) == SubSeq(s, Max(Len(s) - n, 0) + 1, Len(s))

\* The text of a character sequence as one TLA+ string.
RECURSIVE Str(_)
Str(s) == IF s = <<>> THEN "" ELSE s[1] \o Str(Tail(s))

\* ------------------------------------------------- trimMetadata, compare
HexDigits == <<"0", "1", "2", "3", "4", "5", "6", "7", "8", "9",
               "a", "b", "c", "d", "e", "f">>
IsHexDigit(c) == \E i \in 1..Len(HexDigits) : HexDigits[i] = c
HexValue(c) == (CHOOSE i \in 1..Len(HexDigits) : HexDigits[i] = c) - 1

\* The longest prefix of s made of hexadecimal digits.
RECURSIVE HexPrefix(_)
HexPrefix(s) ==
  IF s = <<>> \/ ~IsHexDigit(s[1]) THEN <<>> ELSE <<s[1]>> \o HexPrefix(Tail(s))

RECURSIVE HexNumber(_)
HexNumber(s) ==
  IF s = <<>> THEN 0 ELSE 16 * HexNumber(SubSeq(s, 1, Len(s) - 1)) + HexValue(s[Len(s)])

\* parseInt(s, 16): an optional 0x prefix is skipped, the leading hexadecimal
\* digits are read, and NaN is the answer when there is none.
ParseInt16(s) ==
  LET t == IF Len(s) >= 2 /\ s[1] = "0" /\ s[2] = "x" THEN SubSeq(s, 3, Len(s)) ELSE s
      p == HexPrefix(t)
  IN IF p = <<>> THEN NaN ELSE HexNumber(p)

\* trimMetadata, Injector.ts 541-545.
trimMetadata(bytecode) ==
  LET n == ParseInt16(SliceLast(bytecode, 4))
      metadataSize == IF n = NaN THEN NaN ELSE n * 2 + 4
  IN Slice(bytecode, 0, IF metadataSize = NaN THEN NaN ELSE Len(bytecode) - metadataSize)

\* A plausible slip: the equality test of the whole strings is lost, so that
\* identical bytecode is classified by the trimmed comparison alone.
compareBytecodesNoPerfect(deployedBytecode, compiledBytecode) ==
  IF deployedBytecode # NULL /\ Len(deployedBytecode) > 2
  THEN IF trimMetadata(deployedBytecode) = trimMetadata(compiledBytecode)
       THEN "partial"
       ELSE NULL_STATUS
  ELSE NULL_STATUS

\* A plausible slip: only the deployed bytecode is trimmed before the second
\* comparison.
compareBytecodesCompiledUntrimmed(deployedBytecode, compiledBytecode) ==
  IF deployedBytecode # NULL /\ Len(deployedBytecode) > 2
  THEN IF deployedBytecode = compiledBytecode
       THEN "perfect"
       ELSE IF trimMetadata(deployedBytecode) = compiledBytecode
            THEN "partial"
            ELSE NULL_STATUS
  ELSE NULL_STATUS

\* compareBytecodes, Injector.ts 333-348.  deployedBytecode is a string or
\* null (the read failed); the result is 'perfect', 'partial' or null.
compareBytecodes(deployedBytecode, compiledBytecode) ==
  IF deployedBytecode # NULL /\ Len(deployedBytecode) > 2
  THEN IF deployedBytecode = compiledBytecode
       THEN "perfect"
       ELSE IF trimMetadata(deployedBytecode) = trimMetadata(compiledBytecode)
            THEN "partial"
            ELSE NULL_STATUS
  ELSE NULL_STATUS

\* --------------------------------------------------- path sanitization
\* The characters [a-z0-9_./-] (case-insensitive) the first replace keeps.
AllowedChars == {"a", "b", "c", "d", "e", "f", "g", "h", "i", "j", "k", "l", "m",
                 "n", "o", "p", "q", "r", "s", "t", "u", "v", "w", "x", "y", "z",
                 "A", "B", "C", "D", "E", "F", "G", "H", "I", "J", "K", "L", "M",
                 "N", "O", "P", "Q", "R", "S", "T", "U", "V", "W", "X", "Y", "Z",
                 "0", "1", "2", "3", "4", "5", "6", "7", "8", "9",
                 "_", ".", "/", "-"}

\* .replace(/[^a-z0-9_.\/-]/gim, "_"): every other character becomes "_".
ReplaceDisallowed(s) == [i \in 1..Len(s) |-> IF s[i] \in AllowedChars THEN s[i] ELSE "_"]

\* The last index of the run of "." that starts at index j (j - 1 when s[j] is no ".").
RECURSIVE DotRunEnd(_, _)
DotRunEnd(s, j) == IF j <= Len(s) /\ s[j] = "." THEN DotRunEnd(s, j + 1) ELSE j - 1

\* /(^|\/)[.]+($|\/)/ matched at index i: the index of the last character
\* matched, or 0 when the expression does not match there.  The run of dots
\* is taken to its end (a shorter run is followed by a dot, never by / or $).
DotSegmentMatchEnd(s, i) ==
  LET from == IF i = 1 /\ s[1] = "." THEN 1
              ELSE IF s[i] = "/" THEN i + 1 ELSE 0
      last == IF from = 0 THEN 0 ELSE DotRunEnd(s, from)
  IN IF from = 0 \/ last < from THEN 0
     ELSE IF last = Len(s) THEN last
     ELSE IF s[last + 1] = "/" THEN last + 1
     ELSE 0

\* .replace(/(^|\/)[.]+($|\/)/, '_'): no g flag, so only the leftmost match
\* is replaced.
ReplaceFirstDotSegment(s) ==
  LET hits == {i \in 1..Len(s) : DotSegmentMatchEnd(s, i) # 0}
  IN IF hits = {} THEN s
     ELSE LET i == CHOOSE h \in hits : \A k \in hits : h <= k
              e == DotSegmentMatchEnd(s, i)
          IN SubSeq(s, 1, i - 1) \o <<"_">> \o SubSeq(s, e + 1, Len(s))

\* The sanitized path, Injector.ts 219-221 and 268-270.
sanitize(sourcePath) == ReplaceFirstDotSegment(ReplaceDisallowed(sourcePath))

\* The segments of a path text: the pieces between "/" characters.
RECURSIVE SplitSlash(_, _)
SplitSlash(s, cur) ==
  IF s = <<>> THEN <<cur>>
  ELSE IF s[1] = "/" THEN <<cur>> \o SplitSlash(Tail(s), <<>>)
  ELSE SplitSlash(Tail(s), Append(cur, s[1]))

Segments(s) == SplitSlash(s, <<>>)

IsDotOnly(seg) == seg # <<>> /\ \A i \in 1..Len(seg) : seg[i] = "."

\* path.join's normal form of base/<segs>: empty and "." segments vanish, ".."
\* removes the segment before it (and stays when there is none to remove).
RECURSIVE Normalize(_, _)
Normalize(acc, segs) ==
  IF segs = <<>> THEN acc
  ELSE LET g == Str(segs[1])
       IN IF g = "" \/ g = "." THEN Normalize(acc, Tail(segs))
          ELSE IF g = ".."
               THEN IF acc # <<>> /\ acc[Len(acc)] # ".."
                    THEN Normalize(SubSeq(acc, 1, Len(acc) - 1), Tail(segs))
                    ELSE Normalize(Append(acc, ".."), Tail(segs))
          ELSE Normalize(Append(acc, g), Tail(segs))

\* path.join(base..., text), base already in normal form.
PathJoin(base, text) == Normalize(base, Segments(text))

IsPrefix(p, q) == Len(p) <= Len(q) /\ SubSeq(q, 1, Len(p)) = p

\* ------------------------------------------------------------- universe
\* File contents and metadata texts are TLA+ strings; file names and
\* bytecode are character sequences (they are sliced and matched).
Repository == "repository"

NameA == <<"A", ".", "s", "o", "l">>
NameB == <<"B", ".", "s", "o", "l">>
\* A crafted file name: .//../../../../../../swarm/bzzr1/55
NameCrafted == <<".", "/", "/", ".", ".", "/", ".", ".", "/", ".", ".", "/", ".", ".",
                 "/", ".", ".", "/", ".", ".", "/", "s", "w", "a", "r", "m", "/",
                 "b", "z", "z", "r", "1", "/", "5", "5">>

\* Web3.utils.keccak256 of a content: injective on the contents of the model.
keccak256(content) == "keccak256(" \o content \o ")"

\* A source entry of a descriptor whose inline content is absent.
NO_CONTENT == "<undefined>"

Target(fileName, contractName) == [fileName |-> fileName, contractName |-> contractName]
Source(fileName, content, hash) == [fileName |-> fileName, content |-> content, keccak256 |-> hash]
Settings(targets) ==
  [hasCompilationTarget |-> TRUE, compilationTarget |-> targets, outputSelection |-> <<>>]
Descriptor(language, targets, sources) ==
  [language |-> language, settings |-> Settings(targets), sources |-> sources]

\* The uploaded files of the model, by their text, and what JSON.parse
\* makes of each: the metadata documents parse, any other text throws.
MetadataDocs ==
  [f \in {"metadata A", "metadata A with library", "metadata B", "metadata A tampered",
          "metadata Vyper"} |->
     CASE f = "metadata A" ->
            Descriptor("Solidity", <<Target(NameA, "A")>>,
                       <<Source(NameA, "contract A", keccak256("contract A"))>>)
       [] f = "metadata A with library" ->
            Descriptor("Solidity", <<Target(NameA, "A")>>,
                       <<Source(NameA, NO_CONTENT, keccak256("contract A")),
                         Source(NameCrafted, "library L", keccak256("library L"))>>)
       [] f = "metadata B" ->
            Descriptor("Solidity", <<Target(NameB, "B")>>,
                       <<Source(NameB, "contract B", keccak256("contract B"))>>)
       [] f = "metadata A tampered" ->
            Descriptor("Solidity", <<Target(NameA, "A")>>,
                       <<Source(NameA, "contract Evil", keccak256("contract A"))>>)
       [] OTHER ->
            Descriptor("Vyper", <<Target(NameA, "A")>>,
                       <<Source(NameA, "contract A", keccak256("contract A"))>>)]

RawFiles == DOMAIN MetadataDocs \cup {"contract A"}

\* Sequences over S of length at most n.
SeqUpTo(S, n) == UNION {[1..k -> S] : k \in 0..n}

Uploads == SeqUpTo(RawFiles, MaxFiles)

\* Bytecode of the model: 0x, one byte of logic, the trailer (entries of a
\* key byte and a value byte), and the trailer's length in bytes on two bytes.
CodeA == <<"0", "x", "6", "a", "b", "1", "5", "5", "0", "0", "0", "2">>
CodeAOtherTrailer == <<"0", "x", "6", "a", "b", "1", "7", "7", "0", "0", "0", "2">>
CodeB == <<"0", "x", "6", "b", "a", "0", "0", "7", "0", "0", "0", "2">>
CodeEvil == <<"0", "x", "6", "e", "b", "1", "5", "5", "0", "0", "0", "2">>

\* Candidate addresses as submitted; null is JavaScript's null.
NULL_ADDRESS == "null"
Candidates == {"0xaa", "0xbb", "0xcc", "bad", NULL_ADDRESS}
AddressLists == SeqUpTo(Candidates, MaxAddrs)

\* What a successful eth_getCode returns for each well-formed address.
ChainCode(address) ==
  CASE address = "0xAA" -> CodeA
    [] address = "0xBB" -> CodeAOtherTrailer
    [] OTHER -> CodeB

\* The chain values a submission may carry: a registered chain name, the
\* empty string, none at all, and a number.
Chains == {[type |-> "string", value |-> "mainnet"], [type |-> "string", value |-> ""],
           [type |-> "undefined", value |-> ""], [type |-> "number", value |-> "1"]}

\* The optional pre-fetched bytecode of InputData: absent, the empty string,
\* the code of an address with no contract, and two contracts' code.
Bytecodes == {UNDEFINED, <<>>, <<"0", "x">>, CodeA, CodeAOtherTrailer}

\* ------------------------------------------------------- the operations
\* A plausible slip: the language of a parsed file is not tested.
findMetadataFilesAnyLanguage(files) ==
  LET parsed == SelectSeq(files, LAMBDA f : f \in DOMAIN MetadataDocs)
  IN [i \in 1..Len(parsed) |-> MetadataDocs[parsed[i]]]

\* findMetadataFiles, Injector.ts 87-110 and injector.ts 85-108: the files
\* that parse and whose language is Solidity, in input order.  The caller
\* of this operator raises when the result is empty.
RECURSIVE findMetadataFiles(_)
findMetadataFiles(files) ==
  IF files = <<>> THEN <<>>
  ELSE LET f == files[1]
           rest == findMetadataFiles(Tail(files))
       IN IF f \in DOMAIN MetadataDocs /\ MetadataDocs[f].language = "Solidity"
          THEN <<MetadataDocs[f]>> \o rest
          ELSE rest

\* storeByHash, Injector.ts 117-124: byHash[hash], undefined when no file
\* has that hash; a later file of the same hash overwrites an earlier one.
storeByHash(files, hash) ==
  LET hits == {i \in 1..Len(files) : keccak256(files[i]) = hash}
  IN IF hits = {} THEN NO_CONTENT
     ELSE files[CHOOSE i \in hits : \A j \in hits : j <= i]

\* JavaScript's truthiness of a content: undefined and "" are falsy.
Truthy(content) == content # NO_CONTENT /\ content # ""

\* sources[fileName] = content on an ordered map: an existing key keeps its place.
MapSet(map, fileName, content) ==
  IF \E i \in 1..Len(map) : map[i].fileName = fileName
  THEN [i \in 1..Len(map) |->
          IF map[i].fileName = fileName THEN [map[i] EXCEPT !.content = content] ELSE map[i]]
  ELSE Append(map, [fileName |-> fileName, content |-> content])

\* A plausible slip: the digest of an inline content is not compared.
RECURSIVE rearrangeSourcesUnchecked(_, _, _)
rearrangeSourcesUnchecked(declared, files, sources) ==
  IF declared = <<>> THEN [error |-> "none", fileName |-> <<>>, sources |-> sources]
  ELSE LET d == declared[1]
           content == IF Truthy(d.content) THEN d.content ELSE storeByHash(files, d.keccak256)
       IN IF ~Truthy(content)
          THEN [error |-> "SourceNotFound", fileName |-> d.fileName, sources |-> <<>>]
          ELSE rearrangeSourcesUnchecked(Tail(declared), files, MapSet(sources, d.fileName, content))

\* rearrangeSources, Injector.ts 133-161 and injector.ts 131-159, over the
\* declared sources still to be visited and the map built so far.
RECURSIVE rearrangeSources(_, _, _)
rearrangeSources(declared, files, sources) ==
  IF declared = <<>> THEN [error |-> "none", fileName |-> <<>>, sources |-> sources]
  ELSE LET d == declared[1]
           mismatch == Truthy(d.content) /\ keccak256(d.content) # d.keccak256
           content == IF Truthy(d.content) THEN d.content ELSE storeByHash(files, d.keccak256)
       IN IF mismatch
          THEN [error |-> "SourceHashMismatch", fileName |-> d.fileName, sources |-> <<>>]
          ELSE IF ~Truthy(content)
          THEN [error |-> "SourceNotFound", fileName |-> d.fileName, sources |-> <<>>]
          ELSE rearrangeSources(Tail(declared), files, MapSet(sources, d.fileName, content))

\* A plausible slip: the entries of the list are not tested for null.
validateAddressesLengthOnly(addresses) == Len(addresses) # 0

\* validateAddresses, Injector.ts 354-364 and injector.ts 323-333.
validateAddresses(addresses) ==
  Len(addresses) # 0 /\ \A i \in 1..Len(addresses) : addresses[i] # NULL_ADDRESS

\* validateChain, Injector.ts 370-376 and injector.ts 339-345.
validateChain(chain) == chain.type = "string" /\ chain.value # ""

\* Web3.utils.toChecksumAddress: the checksummed form of a well-formed
\* address; it throws on any other text.
IsAddress(address) == address \in {"0xaa", "0xbb", "0xcc"}
toChecksumAddress(address) ==
  CASE address = "0xaa" -> "0xAA"
    [] address = "0xbb" -> "0xBB"
    [] OTHER -> "0xCC"

\* reformatMetadata, Injector.ts 553-598.  input.settings is metadata.settings
\* itself, so deleting compilationTarget and setting outputSelection change
\* the caller's descriptor; `settings` is what the descriptor holds afterwards.
\* The for-in loop leaves the last pair of compilationTarget in fileName and
\* contractName; the delete comes before the test of contractName.
reformatMetadata(metadata, sources) ==
  LET targets == IF metadata.settings.hasCompilationTarget
                 THEN metadata.settings.compilationTarget ELSE <<>>
      fileName == IF targets = <<>> THEN <<>> ELSE targets[Len(targets)].fileName
      contractName == IF targets = <<>> THEN "" ELSE targets[Len(targets)].contractName
      deleted == [metadata.settings EXCEPT !.hasCompilationTarget = FALSE,
                                           !.compilationTarget = <<>>]
  IN IF contractName = ""
     THEN [error |-> "AmbiguousOrMissingTarget", settings |-> deleted,
           sources |-> <<>>, fileName |-> fileName, contractName |-> contractName]
     ELSE [error |-> "none",
           settings |-> [deleted EXCEPT !.outputSelection =
                           IF \E i \in 1..Len(@) : @[i] = Target(fileName, contractName)
                           THEN @ ELSE Append(@, Target(fileName, contractName))],
           sources |-> sources, fileName |-> fileName, contractName |-> contractName]

\* The external compiler: output.contracts[fileName][contractName] of the
\* compiled input, by the content of the target file.  The TypeError of
\* recompile (Injector.ts 526) when the output lacks the contract is the
\* error CompilationError.
SolcOutput(sources, fileName, contractName) ==
  LET hits == {i \in 1..Len(sources) : sources[i].fileName = fileName}
      content == IF hits = {} THEN NO_CONTENT ELSE sources[CHOOSE i \in hits : TRUE].content
  IN CASE content = "contract A" /\ contractName = "A" ->
            [error |-> "none", deployedBytecode |-> SubSeq(CodeA, 3, Len(CodeA)),
             metadata |-> "canonical metadata A"]
       [] content = "contract B" /\ contractName = "B" ->
            [error |-> "none", deployedBytecode |-> SubSeq(CodeB, 3, Len(CodeB)),
             metadata |-> "canonical metadata B"]
       [] content = "contract Evil" /\ contractName = "A" ->
            [error |-> "none", deployedBytecode |-> SubSeq(CodeEvil, 3, Len(CodeEvil)),
             metadata |-> "canonical metadata Evil"]
       [] OTHER -> [error |-> "CompilationError", deployedBytecode |-> <<>>, metadata |-> ""]

\* recompile, Injector.ts 494-533, given whether the compiler version could
\* be loaded: the RecompilationResult, or the error raised.
recompile(metadata, sources, loaded) ==
  LET r == reformatMetadata(metadata, sources)
      out == SolcOutput(r.sources, r.fileName, r.contractName)
  IN IF r.error # "none"
     THEN [error |-> r.error, deployedBytecode |-> <<>>, metadata |-> ""]
     ELSE IF ~loaded \/ out.error # "none"
     THEN [error |-> "CompilationError", deployedBytecode |-> <<>>, metadata |-> ""]
     ELSE [error |-> "none", deployedBytecode |-> <<"0", "x">> \o out.deployedBytecode,
           metadata |-> out.metadata]

\* cborDecode of the bytes of a bytecode (services/core, outside src/): the
\* last two bytes give the trailer's length in bytes, and the trailer is a
\* map of entries.  The model's encoding of an entry is a key byte (b0:
\* bzzr0, b1: bzzr1, 1f: ipfs, any other byte: a key the store ignores) and a
\* value byte.  The result is the value text of `key`, <<>> when absent.
RECURSIVE TrailerValue(_, _)
TrailerValue(blob, keyByte) ==
  IF Len(blob) < 4 THEN <<>>
  ELSE IF SubSeq(blob, 1, 2) = keyByte THEN SubSeq(blob, 3, 4)
  ELSE TrailerValue(SubSeq(blob, 5, Len(blob)), keyByte)

cborDecode(deployedBytecode, keyByte) ==
  LET hex == SubSeq(deployedBytecode, 3, Len(deployedBytecode))
      n == IF Len(hex) < 4 THEN 0 ELSE HexNumber(SliceLast(hex, 4))
      from == Len(hex) - 4 - 2 * n
  IN IF Len(hex) < 4 \/ from < 0 THEN <<>>
     ELSE TrailerValue(SubSeq(hex, from + 1, Len(hex) - 4), keyByte)

\* Web3.utils.bytesToHex(bytes).slice(2)
bytesToHex(bytes) == Slice(<<"0", "x">> \o bytes, 2, Len(bytes) + 2)

\* multihashes.toB58String(bytes): the base58 text of the multihash.
toB58String(bytes) == "Qm" \o Str(bytes)

\* A plausible slip: the keys are tested in the order ipfs, bzzr1, bzzr0.
metadataPathIpfsFirst(deployedBytecode) ==
  LET bzzr0 == cborDecode(deployedBytecode, <<"b", "0">>)
      bzzr1 == cborDecode(deployedBytecode, <<"b", "1">>)
      ipfs == cborDecode(deployedBytecode, <<"1", "f">>)
  IN IF ipfs # <<>> THEN <<"ipfs", toB58String(ipfs)>>
     ELSE IF bzzr1 # <<>> THEN <<"swarm", "bzzr1", Str(bytesToHex(bzzr1))>>
     ELSE IF bzzr0 # <<>> THEN <<"swarm", "bzzr0", Str(bytesToHex(bzzr0))>>
     ELSE <<>>

\* The metadataPath of storePerfectMatchData, Injector.ts 179-202, as path
\* segments; <<>> when the trailer holds none of the three keys.
metadataPath(deployedBytecode) ==
  LET bzzr0 == cborDecode(deployedBytecode, <<"b", "0">>)
      bzzr1 == cborDecode(deployedBytecode, <<"b", "1">>)
      ipfs == cborDecode(deployedBytecode, <<"1", "f">>)
  IN IF bzzr0 # <<>> THEN <<"swarm", "bzzr0", Str(bytesToHex(bzzr0))>>
     ELSE IF bzzr1 # <<>> THEN <<"swarm", "bzzr1", Str(bytesToHex(bzzr1))>>
     ELSE IF ipfs # <<>> THEN <<"ipfs", toB58String(ipfs)>>
     ELSE <<>>

Write(path, data) == [path |-> path, data |-> data]

\* The loop over sources of both store functions: one save per entry, at
\* path.join(dir..., 'sources', sanitizedPath), in the order of the map.
RECURSIVE saveSources(_, _)
saveSources(dir, sources) ==
  IF sources = <<>> THEN <<>>
  ELSE <<Write(PathJoin(Append(dir, "sources"), sanitize(sources[1].fileName)),
               sources[1].content)>>
       \o saveSources(dir, Tail(sources))

\* The directory of a match in each layout: Injector.ts 205-212 and 255-262,
\* injector.ts 203 and 245-251.
fullMatchDir(legacy, chain, address) ==
  IF legacy THEN <<Repository, "contract", chain, address>>
  ELSE <<Repository, "contracts", "full_match", chain, address>>

partialMatchDir(legacy, chain, address) ==
  IF legacy THEN <<Repository, "partial_matches", chain, address>>
  ELSE <<Repository, "contracts", "partial_match", chain, address>>

\* storePerfectMatchData, Injector.ts 171-235 and injector.ts 169-225: the
\* saves it performs, in order, or the error it raises before any save.
storePerfectMatchData(legacy, chain, address, compilationResult, sources) ==
  LET hashPath == metadataPath(compilationResult.deployedBytecode)
      dir == fullMatchDir(legacy, chain, address)
  IN IF hashPath = <<>>
     THEN [error |-> "MetadataReferenceMissing", writes |-> <<>>]
     ELSE [error |-> "none",
           writes |-> <<Write(<<Repository>> \o hashPath, compilationResult.metadata),
                        Write(Append(dir, "metadata.json"), compilationResult.metadata)>>
                      \o saveSources(dir, sources)]

\* storePartialMatchData, Injector.ts 247-284 and injector.ts 237-272.
storePartialMatchData(legacy, chain, address, compilationResult, sources) ==
  LET dir == partialMatchDir(legacy, chain, address)
  IN <<Write(Append(dir, "metadata.json"), compilationResult.metadata)>>
     \o saveSources(dir, sources)

\* ---------------------------------------------------------------- state
VARIABLES
  pc,                 \* the pipeline state of the run (section 4.7 of the design)
  legacy,             \* TRUE: injector.ts; FALSE: server/services/Injector.ts
  chain, addresses, bytecode,           \* the input of inject
  files,              \* the files of the input, as they were submitted
  descriptors,        \* the {metadata, solidity} entries inject loops over, as they are now
  idx,                \* the index of the entry the loop is at
  target,             \* the copy of compilationTarget taken before recompile
  compilationResult,
  scanned,            \* candidates the address scan has gone past
  match,
  error,              \* the error inject raised
  writes,             \* every save so far: path, data, and the entry it is for
  reads,              \* every getBytecode call so far: what it returned, how it compared
  compares,           \* every evaluation of compareBytecodes by the pipeline
  compilerCalls,      \* every input handed to the compiler
  sourcePath, sanitizedPath,                      \* SpecSanitize
  deployedBytecode, compiledBytecode, status,     \* SpecCompare
  plan,               \* SpecStores: the saves of the store both runs perform
  saved,              \* SpecStores: how many of them each run has performed
  repo,               \* SpecStores: the content of each path of the repository
  firstRun,           \* SpecRerun: the reads and the saves of the first of two runs
  trailer,            \* SpecLocate: the entries of the trailer of the compiled bytecode
  located             \* SpecLocate: the content address derived, or the error raised

pipeVars == <<pc, legacy, chain, addresses, files, bytecode, descriptors, idx, target,
              compilationResult, scanned, match, error, writes, reads, compares,
              compilerCalls>>
storeVars == <<plan, saved, repo>>
locateVars == <<trailer, located>>
pureVars == <<sourcePath, sanitizedPath, deployedBytecode, compiledBytecode, status, storeVars,
              firstRun, locateVars>>
vars == <<pipeVars, pureVars>>

NOT_RUN == <<"not run">>
NoError == [type |-> "none", detail |-> "", target |-> <<>>, addresses |-> <<>>]
Error(type, detail) == [type |-> type, detail |-> detail, target |-> <<>>, addresses |-> <<>>]
NoResult == [error |-> "none", deployedBytecode |-> <<>>, metadata |-> ""]
NoMatchYet == [address |-> NULL_ADDRESS, status |-> NULL_STATUS]
NoRun == [ended |-> FALSE, reads |-> <<>>, writes |-> <<>>]

PureIdle ==
  /\ sourcePath = <<>> /\ sanitizedPath = NOT_RUN
  /\ deployedBytecode = <<>> /\ compiledBytecode = <<>> /\ status = "not run"
  /\ plan = <<>> /\ saved = <<0, 0>> /\ repo = <<>>
  /\ firstRun = NoRun
  /\ trailer = <<>> /\ located = NOT_RUN

PipeIdle ==
  /\ pc = "IDLE" /\ legacy = FALSE
  /\ chain = [type |-> "undefined", value |-> ""]
  /\ addresses = <<>> /\ files = <<>> /\ bytecode = UNDEFINED
  /\ descriptors = <<>> /\ idx = 0 /\ target = <<>>
  /\ compilationResult = NoResult /\ scanned = 0 /\ match = NoMatchYet
  /\ error = NoError /\ writes = <<>> /\ reads = <<>> /\ compares = <<>>
  /\ compilerCalls = <<>>

\* The state after construction: nothing submitted, nothing written.
Init == PipeIdle /\ PureIdle

\* --------------------------------------------------------- the pipeline
\* What the caller of the current inject passes as files: entries whose
\* solidity is the SourceSet rearrangeSources builds for the metadata from
\* some upload (the caller, FileService, is outside src/).
AssembledEntries ==
  LET docs == {MetadataDocs[f] : f \in DOMAIN MetadataDocs}
      ok(m, u) == /\ m.language = "Solidity"
                  /\ rearrangeSources(m.sources, u, <<>>).error = "none"
  IN {[metadata |-> mu[1], solidity |-> rearrangeSources(mu[1].sources, mu[2], <<>>).sources] :
        mu \in {x \in docs \X SeqUpTo(RawFiles, 1) : ok(x[1], x[2])}}

\* inject raises `e`: the run ends in FAILED.
Fail(e) == pc' = "FAILED" /\ error' = e

\* A plausible slip: the copy is taken after recompile, which has deleted
\* compilationTarget from the settings.
compilationTargetAfterRecompile(metadata) == <<>>

\* Object.assign({}, metadata.settings.compilationTarget), Injector.ts 404
\* and injector.ts 375.
compilationTargetCopy(metadata) ==
  IF metadata.settings.hasCompilationTarget THEN metadata.settings.compilationTarget ELSE <<>>

\* The error of Injector.ts 451-465 and injector.ts 406-419: its message
\* holds the copied target and the addresses as submitted.
noMatchError(copiedTarget, submitted) ==
  [type |-> "NoMatch", detail |-> "", target |-> copiedTarget, addresses |-> submitted]

\* The branch inject takes on a match, Injector.ts 442-466.
decision(m) ==
  IF m.address # NULL_ADDRESS /\ m.status = "perfect" THEN "STORE_FULL"
  ELSE IF m.address # NULL_ADDRESS /\ m.status = "partial" THEN "STORE_PARTIAL"
  ELSE "FAILED"

\* inject has its match for the entry: it goes on to the store, or raises.
Decide(m) ==
  /\ match' = m
  /\ pc' = decision(m)
  /\ error' = IF decision(m) = "FAILED" THEN noMatchError(target, addresses) ELSE error

\* The legacy inject is called, injector.ts 357-368: the validations.
InjectLegacy ==
  /\ pc = "IDLE"
  /\ \E fs \in Uploads, as \in AddressLists, ch \in Chains :
       /\ legacy' = TRUE /\ files' = fs /\ addresses' = as /\ chain' = ch
       /\ IF ~validateAddresses(as) THEN Fail(Error("InputValidationError", "address"))
          ELSE IF ~validateChain(ch) THEN Fail(Error("InputValidationError", "chain"))
          ELSE pc' = "SELECT_METADATA" /\ error' = error
  /\ UNCHANGED <<bytecode, descriptors, idx, target, compilationResult, scanned, match,
                 writes, reads, compares, compilerCalls, pureVars>>

\* findMetadataFiles as the legacy inject calls it, injector.ts 368.
SelectMetadata ==
  /\ pc = "SELECT_METADATA"
  /\ LET metadataFiles == findMetadataFiles(files)
     IN IF metadataFiles = <<>>
        THEN Fail(Error("NoMetadataFound", "")) /\ UNCHANGED <<descriptors, idx>>
        ELSE /\ descriptors' = [i \in 1..Len(metadataFiles) |->
                                  [metadata |-> metadataFiles[i], solidity |-> <<>>]]
             /\ idx' = 1
             /\ pc' = "ASSEMBLE_SOURCES"
             /\ error' = error
  /\ UNCHANGED <<legacy, chain, addresses, files, bytecode, target, compilationResult,
                 scanned, match, writes, reads, compares, compilerCalls, pureVars>>

\* rearrangeSources for the entry the legacy loop is at, injector.ts 371.
AssembleSources ==
  /\ pc = "ASSEMBLE_SOURCES"
  /\ LET r == rearrangeSources(descriptors[idx].metadata.sources, files, <<>>)
     IN IF r.error # "none"
        THEN Fail(Error(r.error, Str(r.fileName))) /\ UNCHANGED descriptors
        ELSE /\ descriptors' = [descriptors EXCEPT ![idx].solidity = r.sources]
             /\ pc' = "COMPILE"
             /\ error' = error
  /\ UNCHANGED <<legacy, chain, addresses, files, bytecode, idx, target, compilationResult,
                 scanned, match, writes, reads, compares, compilerCalls, pureVars>>

\* The current inject is called, Injector.ts 388-400: the validations; with
\* no entry to loop over it returns its initial match at once.
Inject ==
  /\ pc = "IDLE"
  /\ \E fs \in SeqUpTo(AssembledEntries, MaxFiles), as \in AddressLists, ch \in Chains,
        bc \in Bytecodes :
       /\ legacy' = FALSE /\ files' = fs /\ descriptors' = fs
       /\ addresses' = as /\ chain' = ch
       /\ bytecode' = bc
       /\ IF ~validateAddresses(as) THEN Fail(Error("InputValidationError", "address"))
          ELSE IF ~validateChain(ch) THEN Fail(Error("InputValidationError", "chain"))
          ELSE /\ pc' = IF fs = <<>> THEN "DONE" ELSE "COMPILE"
               /\ error' = error
       /\ idx' = IF fs = <<>> THEN 0 ELSE 1
  /\ UNCHANGED <<target, compilationResult, scanned, match, writes, reads,
                 compares, compilerCalls, pureVars>>

\* The copy of the target and recompile, Injector.ts 404-412 and injector.ts
\* 375-383.  reformatMetadata has changed the entry's settings whether or
\* not recompile then succeeds; the compiler is invoked once the input is
\* derived and the compiler version is loaded.
Compile ==
  /\ pc = "COMPILE"
  /\ \E loaded \in BOOLEAN :
       LET d == descriptors[idx]
           r == reformatMetadata(d.metadata, d.solidity)
           res == recompile(d.metadata, d.solidity, loaded)
       IN /\ target' = compilationTargetCopy(d.metadata)
          /\ descriptors' = [descriptors EXCEPT ![idx].metadata.settings = r.settings]
          /\ compilerCalls' = IF r.error = "none" /\ loaded
                              THEN Append(compilerCalls, [descriptor |-> idx, sources |-> r.sources])
                              ELSE compilerCalls
          /\ IF res.error # "none"
             THEN Fail(Error(res.error, "")) /\ UNCHANGED compilationResult
             ELSE /\ compilationResult' = res
                  /\ pc' = "MATCH"
                  /\ error' = error
  /\ scanned' = 0
  /\ UNCHANGED <<legacy, chain, addresses, files, bytecode, idx, match, writes, reads,
                 compares, pureVars>>

\* A plausible slip: the pre-fetched bytecode is never looked at.
HasBytecodeIgnored == FALSE

\* if (inputData.bytecode): a non-empty string.
HasBytecode == bytecode # UNDEFINED /\ bytecode # <<>>

\* The direct comparison against the pre-fetched bytecode, Injector.ts
\* 416-426; toChecksumAddress throws on a malformed first address.
CompareFetched ==
  /\ pc = "MATCH" /\ HasBytecode
  /\ LET s == compareBytecodes(bytecode, compilationResult.deployedBytecode)
     IN /\ compares' = Append(compares, [descriptor |-> idx, status |-> s])
        /\ IF ~IsAddress(addresses[1])
           THEN Fail(Error("InvalidAddress", addresses[1])) /\ UNCHANGED match
           ELSE Decide([address |-> toChecksumAddress(addresses[1]), status |-> s])
  /\ UNCHANGED <<legacy, chain, addresses, files, bytecode, descriptors, idx, target,
                 compilationResult, scanned, writes, reads, compilerCalls, pureVars>>

\* A plausible slip: the loop has no break, so the scan reads on after a
\* match and a later match replaces an earlier one.
ScanTurnNoBreak(i, address, deployed) ==
  LET s == compareBytecodes(deployed, compilationResult.deployedBytecode)
      m == IF s # NULL_STATUS THEN [address |-> address, status |-> s]
           ELSE IF scanned = 0 THEN NoMatchYet ELSE match
  IN /\ reads' = Append(reads, [descriptor |-> idx, index |-> i, address |-> address,
                                deployedBytecode |-> deployed, status |-> s])
     /\ compares' = Append(compares, [descriptor |-> idx, status |-> s])
     /\ IF i = Len(addresses)
        THEN Decide(m) /\ UNCHANGED scanned
        ELSE scanned' = i /\ match' = m /\ UNCHANGED <<pc, error>>

\* A plausible slip: a candidate whose read failed is read once more before
\* the loop goes on.
ScanTurnRetryOnce(i, address, deployed) ==
  LET s == compareBytecodes(deployed, compilationResult.deployedBytecode)
      retried == \E k \in 1..Len(reads) : reads[k].descriptor = idx /\ reads[k].index = i
  IN /\ reads' = Append(reads, [descriptor |-> idx, index |-> i, address |-> address,
                                deployedBytecode |-> deployed, status |-> s])
     /\ IF deployed = NULL /\ ~retried
        THEN UNCHANGED <<compares, scanned, pc, error, match>>
        ELSE /\ compares' = Append(compares, [descriptor |-> idx, status |-> s])
             /\ IF s # NULL_STATUS
                THEN Decide([address |-> address, status |-> s]) /\ UNCHANGED scanned
                ELSE IF i = Len(addresses)
                THEN Decide(NoMatchYet) /\ UNCHANGED scanned
                ELSE scanned' = i /\ UNCHANGED <<pc, error, match>>

\* One turn of the loop of matchBytecodeToAddress, Injector.ts 299-321 and
\* injector.ts 287-315, with `deployed` what the try block left in
\* deployedBytecode (null when getBytecode threw).
ScanTurn(i, address, deployed) ==
  LET s == compareBytecodes(deployed, compilationResult.deployedBytecode)
  IN /\ reads' = Append(reads, [descriptor |-> idx, index |-> i, address |-> address,
                                deployedBytecode |-> deployed, status |-> s])
     /\ compares' = Append(compares, [descriptor |-> idx, status |-> s])
     /\ IF s # NULL_STATUS
        THEN Decide([address |-> address, status |-> s]) /\ UNCHANGED scanned
        ELSE IF i = Len(addresses)
        THEN Decide(NoMatchYet) /\ UNCHANGED scanned
        ELSE scanned' = i /\ UNCHANGED <<pc, error, match>>

\* A plausible slip: getBytecode is awaited outside the try block, so a
\* failed read ends inject.
ScanAddressThrowing ==
  /\ pc = "MATCH" /\ ~HasBytecode
  /\ LET i == scanned + 1
     IN IF ~IsAddress(addresses[i])
        THEN /\ Fail(Error("InvalidAddress", addresses[i]))
             /\ UNCHANGED <<scanned, match, reads, compares>>
        ELSE \/ ScanTurn(i, toChecksumAddress(addresses[i]),
                         ChainCode(toChecksumAddress(addresses[i])))
             \/ /\ reads' = Append(reads, [descriptor |-> idx, index |-> i,
                                           address |-> toChecksumAddress(addresses[i]),
                                           deployedBytecode |-> NULL, status |-> NULL_STATUS])
                /\ Fail(Error("TransportError", addresses[i]))
                /\ UNCHANGED <<scanned, match, compares>>
  /\ UNCHANGED <<legacy, chain, addresses, files, bytecode, descriptors, idx, target,
                 compilationResult, writes, compilerCalls, pureVars>>

\* The address scan takes its next candidate: toChecksumAddress (which
\* throws on a malformed address, outside the try block), then the read,
\* which returns the code on chain or fails.
ScanAddress ==
  /\ pc = "MATCH" /\ ~HasBytecode
  /\ LET i == scanned + 1
     IN IF ~IsAddress(addresses[i])
        THEN /\ Fail(Error("InvalidAddress", addresses[i]))
             /\ UNCHANGED <<scanned, match, reads, compares>>
        ELSE \E ok \in BOOLEAN :
               ScanTurn(i, toChecksumAddress(addresses[i]),
                        IF ok THEN ChainCode(toChecksumAddress(addresses[i])) ELSE NULL)
  /\ UNCHANGED <<legacy, chain, addresses, files, bytecode, descriptors, idx, target,
                 compilationResult, writes, compilerCalls, pureVars>>

\* The for loop of inject goes to its next entry, or inject returns.
NextEntry ==
  IF idx < Len(descriptors)
  THEN idx' = idx + 1 /\ pc' = IF legacy THEN "ASSEMBLE_SOURCES" ELSE "COMPILE"
  ELSE idx' = idx /\ pc' = "DONE"

\* The saves of a store as the log keeps them: with the entry and the match
\* they were made for.
Tagged(ws) ==
  [i \in 1..Len(ws) |-> [path |-> ws[i].path, data |-> ws[i].data, descriptor |-> idx,
                         status |-> match.status, address |-> match.address]]

\* A plausible slip: the address-keyed metadata and the sources are saved
\* before the reference to the metadata file is looked for.
StoreFullSavingFirst ==
  /\ pc = "STORE_FULL"
  /\ LET r == storePerfectMatchData(legacy, chain.value, match.address, compilationResult,
                                    descriptors[idx].solidity)
         dir == fullMatchDir(legacy, chain.value, match.address)
     IN IF r.error # "none"
        THEN /\ writes' = writes \o Tagged(<<Write(Append(dir, "metadata.json"),
                                                   compilationResult.metadata)>>
                                           \o saveSources(dir, descriptors[idx].solidity))
             /\ Fail(Error(r.error, "")) /\ UNCHANGED idx
        ELSE /\ writes' = writes \o Tagged(r.writes)
             /\ NextEntry
             /\ error' = error
  /\ UNCHANGED <<legacy, chain, addresses, files, bytecode, descriptors, target,
                 compilationResult, scanned, match, reads, compares, compilerCalls, pureVars>>

\* The store of a perfect match, Injector.ts 442-444 and injector.ts 395-398.
StoreFull ==
  /\ pc = "STORE_FULL"
  /\ LET r == storePerfectMatchData(legacy, chain.value, match.address, compilationResult,
                                    descriptors[idx].solidity)
     IN IF r.error # "none"
        THEN Fail(Error(r.error, "")) /\ UNCHANGED <<writes, idx>>
        ELSE /\ writes' = writes \o Tagged(r.writes)
             /\ NextEntry
             /\ error' = error
  /\ UNCHANGED <<legacy, chain, addresses, files, bytecode, descriptors, target,
                 compilationResult, scanned, match, reads, compares, compilerCalls, pureVars>>

\* A plausible slip: a partial match whose directory was saved before is
\* not saved again.
StorePartialUnlessStored ==
  /\ pc = "STORE_PARTIAL"
  /\ LET ws == Tagged(storePartialMatchData(legacy, chain.value, match.address,
                                            compilationResult, descriptors[idx].solidity))
     IN writes' = IF \E i \in 1..Len(writes) : writes[i].path = ws[1].path
                  THEN writes ELSE writes \o ws
  /\ NextEntry
  /\ UNCHANGED <<legacy, chain, addresses, files, bytecode, descriptors, target,
                 compilationResult, scanned, match, error, reads, compares, compilerCalls,
                 pureVars>>

\* The store of a partial match, Injector.ts 446-448 and injector.ts 400-403.
StorePartial ==
  /\ pc = "STORE_PARTIAL"
  /\ writes' = writes \o Tagged(storePartialMatchData(legacy, chain.value, match.address,
                                                      compilationResult,
                                                      descriptors[idx].solidity))
  /\ NextEntry
  /\ UNCHANGED <<legacy, chain, addresses, files, bytecode, descriptors, target,
                 compilationResult, scanned, match, error, reads, compares, compilerCalls,
                 pureVars>>

Next ==
  \/ InjectLegacy \/ SelectMetadata \/ AssembleSources
  \/ Inject \/ Compile \/ CompareFetched \/ ScanAddress
  \/ StoreFull \/ StorePartial

Spec == Init /\ [][Next]_vars

\* ------------------------------------------------ a run up to its end
\* The submissions of SpecScan: the current inject on one or more entries
\* for contract A, a list of candidates that passed validation, a
\* registered chain and no pre-fetched bytecode.
ScanEntries == {e \in AssembledEntries : e.metadata = MetadataDocs["metadata A"]}

ScanAddressLists ==
  {as \in AddressLists : validateAddresses(as)}

SubmitForScan ==
  /\ pc = "IDLE"
  /\ \E fs \in SeqUpTo(ScanEntries, MaxFiles) \ {<<>>}, as \in ScanAddressLists :
       /\ files' = fs /\ descriptors' = fs
       /\ addresses' = as
  /\ legacy' = FALSE
  /\ chain' = [type |-> "string", value |-> "mainnet"]
  /\ idx' = 1 /\ pc' = "COMPILE"
  /\ UNCHANGED <<bytecode, target, compilationResult, scanned, match, error, writes, reads,
                 compares, compilerCalls, pureVars>>

\* The store step of a run: either store function.
Store == StoreFull \/ StorePartial

\* A run is at its store step.  Both store functions are synchronous and
\* have no other guard, so Store is enabled exactly in these states.
AtStore == pc \in {"STORE_FULL", "STORE_PARTIAL"}

\* WF_vars(Store), written out with AtStore for ENABLED <<Store>>_vars: a
\* run does not stay at its store step for ever without storing.
StoreFairness == []<>(~AtStore) \/ []<><<Store>>_vars

NextScan == SubmitForScan \/ Compile \/ ScanAddress \/ Store

\* inject is a sequence of awaited steps: given that the compiler returns
\* and that every read of the chain returns or fails, a run under way that
\* can take a step takes one.
SpecScan ==
  Init /\ [][NextScan]_vars /\ WF_vars(Compile) /\ WF_vars(ScanAddress) /\ StoreFairness

\* ------------------------------------------------------- a second run
\* inject has returned and is called again on the same submission: the same
\* files (parsed anew), addresses, chain and bytecode, after a first run all
\* of whose reads the chain answered.  The logs go on; the reads and saves
\* of the first run are kept aside.
Resubmit ==
  /\ pc = "DONE" /\ ~firstRun.ended
  /\ \A i \in 1..Len(reads) : reads[i].deployedBytecode # NULL
  /\ firstRun' = [ended |-> TRUE, reads |-> reads, writes |-> writes]
  /\ IF legacy
     THEN pc' = "SELECT_METADATA" /\ descriptors' = <<>> /\ idx' = 0
     ELSE /\ pc' = IF files = <<>> THEN "DONE" ELSE "COMPILE"
          /\ descriptors' = files
          /\ idx' = IF files = <<>> THEN 0 ELSE 1
  /\ target' = <<>> /\ compilationResult' = NoResult /\ scanned' = 0 /\ match' = NoMatchYet
  /\ UNCHANGED <<legacy, chain, addresses, files, bytecode, error, writes, reads, compares,
                 compilerCalls, sourcePath, sanitizedPath, deployedBytecode, compiledBytecode,
                 status, storeVars, locateVars>>

NextRerun == Next \/ Resubmit

SpecRerun == Init /\ [][NextRerun]_vars

\* ------------------------------------------------ the sanitized file name
\* The file names of SpecSanitize: every text of at most MaxNameLen
\* characters over a letter, ".", "/" and a character the store replaces.
NameAlphabet == {"a", ".", "/", "!"}

TypeNameChar ==
  /\ sanitizedPath = NOT_RUN /\ Len(sourcePath) < MaxNameLen
  /\ \E c \in NameAlphabet : sourcePath' = Append(sourcePath, c)
  /\ UNCHANGED <<sanitizedPath, deployedBytecode, compiledBytecode, status, storeVars, firstRun, locateVars, pipeVars>>

\* The two replaces of Injector.ts 219-221 (and 268-270) on the name typed.
SanitizePath ==
  /\ sanitizedPath = NOT_RUN
  /\ sanitizedPath' = sanitize(sourcePath)
  /\ UNCHANGED <<sourcePath, deployedBytecode, compiledBytecode, status, storeVars, firstRun, locateVars, pipeVars>>

NextSanitize == TypeNameChar \/ SanitizePath

SpecSanitize == Init /\ [][NextSanitize]_vars

\* --------------------------------------------------- compareBytecodes
\* The bytecode strings of SpecCompare: every text of at most MaxCodeLen
\* characters over these, as the deployed bytecode.
CodeAlphabet == {"0", "x", "1", "a"}

TypeDeployedChar ==
  /\ status = "not run" /\ compiledBytecode = <<>> /\ Len(deployedBytecode) < MaxCodeLen
  /\ \E c \in CodeAlphabet : deployedBytecode' = Append(deployedBytecode, c)
  /\ UNCHANGED <<compiledBytecode, status, sourcePath, sanitizedPath, storeVars, firstRun, locateVars, pipeVars>>

\* The compiled bytecode is the deployed bytecode itself.
CompileSame ==
  /\ status = "not run" /\ compiledBytecode = <<>> /\ deployedBytecode # <<>>
  /\ compiledBytecode' = deployedBytecode
  /\ UNCHANGED <<deployedBytecode, status, sourcePath, sanitizedPath, storeVars, firstRun, locateVars, pipeVars>>

Compare ==
  /\ status = "not run"
  /\ status' = compareBytecodes(deployedBytecode, compiledBytecode)
  /\ UNCHANGED <<deployedBytecode, compiledBytecode, sourcePath, sanitizedPath, storeVars, firstRun, locateVars, pipeVars>>

NextCompare == TypeDeployedChar \/ CompileSame \/ Compare

SpecCompare == Init /\ [][NextCompare]_vars

\* ------------------------------------------------- two concurrent stores
\* save(path, data) of utils/Utils (outside src/) on the repository: the
\* path holds the data afterwards, whatever it held before.
Save(repository, w) ==
  [p \in DOMAIN repository \cup {w.path} |-> IF p = w.path THEN w.data ELSE repository[p]]

\* The saves of the store inject calls for an entry matched at an address:
\* storePerfectMatchData on a perfect match, storePartialMatchData on a
\* partial one, none otherwise (Injector.ts 442-448, injector.ts 395-403),
\* in the layout of either pipeline.
StoreSaves(layout, entry, address) ==
  LET res == recompile(entry.metadata, entry.solidity, TRUE)
      s == IF res.error = "none"
           THEN compareBytecodes(ChainCode(address), res.deployedBytecode)
           ELSE NULL_STATUS
  IN IF s = "perfect"
     THEN storePerfectMatchData(layout, "mainnet", address, res, entry.solidity).writes
     ELSE IF s = "partial"
     THEN storePartialMatchData(layout, "mainnet", address, res, entry.solidity)
     ELSE <<>>

\* What the repository holds before the two runs: nothing, or an earlier
\* content at every path.
PreviousContent == "previous content"

\* Two runs have verified the same entry at the same address and are about
\* to store it.
StartStores ==
  /\ pc = "IDLE" /\ plan = <<>>
  /\ \E e \in AssembledEntries, a \in {c \in Candidates : IsAddress(c)},
        layout \in BOOLEAN, stale \in BOOLEAN :
       LET ws == StoreSaves(layout, e, toChecksumAddress(a))
       IN /\ ws # <<>>
          /\ plan' = ws
          /\ repo' = IF stale THEN [p \in {ws[i].path : i \in 1..Len(ws)} |-> PreviousContent]
                     ELSE repo
  /\ UNCHANGED <<saved, sourcePath, sanitizedPath, deployedBytecode, compiledBytecode, status,
                 firstRun, locateVars, pipeVars>>

\* Run r performs its next save; the saves of the two runs interleave.
SaveNext(r) ==
  /\ saved[r] < Len(plan)
  /\ repo' = Save(repo, plan[saved[r] + 1])
  /\ saved' = [saved EXCEPT ![r] = @ + 1]
  /\ UNCHANGED <<plan, sourcePath, sanitizedPath, deployedBytecode, compiledBytecode, status,
                 firstRun, locateVars, pipeVars>>

NextStores == StartStores \/ SaveNext(1) \/ SaveNext(2)

SpecStores == Init /\ [][NextStores]_vars

\* ------------------------------------------------ the store of a SourceSet
\* The file names of SpecStoreSources: two the sanitization leaves as they
\* are, and two it maps to the second of these.
NameAB == <<"a", "_", "b">>
NameASpaceB == <<"a", " ", "b">>
NameABangB == <<"a", "!", "b">>
StoredNames == {NameA, NameAB, NameASpaceB, NameABangB}

\* The SourceSets of SpecStoreSources: at most MaxSources entries of
\* distinct file names, in the order of the map.
SourceSets ==
  {m \in SeqUpTo([fileName : StoredNames, content : {"contract A", "contract B"}], MaxSources) :
     \A i, j \in 1..Len(m) : m[i].fileName = m[j].fileName => i = j}

\* The repository after the saves ws, in their order.
RECURSIVE SaveAll(_, _)
SaveAll(repository, ws) ==
  IF ws = <<>> THEN repository ELSE SaveAll(Save(repository, ws[1]), Tail(ws))

\* inject has a perfect or a partial match at an address for an entry and
\* calls the store for it (Injector.ts 442-448, injector.ts 395-403); the
\* store saves the metadata and every source, and inject returns.
StoreSourceSet ==
  /\ pc = "IDLE"
  /\ \E sources \in SourceSets, layout \in BOOLEAN, s \in {"perfect", "partial"} :
       LET res == [error |-> "none", deployedBytecode |-> CodeA,
                   metadata |-> "canonical metadata A"]
           ws == IF s = "perfect"
                 THEN storePerfectMatchData(layout, "mainnet", "0xAA", res, sources).writes
                 ELSE storePartialMatchData(layout, "mainnet", "0xAA", res, sources)
       IN /\ legacy' = layout
          /\ chain' = [type |-> "string", value |-> "mainnet"]
          /\ descriptors' = <<[metadata |-> MetadataDocs["metadata A"], solidity |-> sources]>>
          /\ idx' = 1
          /\ compilationResult' = res
          /\ match' = [address |-> "0xAA", status |-> s]
          /\ plan' = ws
          /\ saved' = <<Len(ws), 0>>
          /\ repo' = SaveAll(repo, ws)
  /\ pc' = "DONE"
  /\ UNCHANGED <<addresses, bytecode, files, target, scanned, error, writes, reads, compares,
                 compilerCalls, sourcePath, sanitizedPath, deployedBytecode, compiledBytecode,
                 status, firstRun, locateVars>>

NextStoreSources == StoreSourceSet

SpecStoreSources == Init /\ [][NextStoreSources]_vars

\* ------------------------------------------------- the content address
\* The trailers of SpecLocate: at most MaxEntries entries of distinct keys,
\* in any order; a key is bzzr0, bzzr1, ipfs or a key the store does not
\* look at, a value is one byte.
TrailerKeys == {"bzzr0", "bzzr1", "ipfs", "solc"}
TrailerValues == {<<"5", "5">>, <<"7", "7">>}
Trailers ==
  {t \in SeqUpTo(TrailerKeys \X TrailerValues, MaxEntries) :
     \A i, j \in 1..Len(t) : i # j => t[i][1] # t[j][1]}

\* The bytecode a trailer is carried by: 0x, a byte of logic, each entry as
\* its key byte and its value, and the length of the entries on two bytes.
KeyByte(key) ==
  CASE key = "bzzr0" -> <<"b", "0">>
    [] key = "bzzr1" -> <<"b", "1">>
    [] key = "ipfs" -> <<"1", "f">>
    [] OTHER -> <<"a", "0">>

RECURSIVE EncodeEntries(_)
EncodeEntries(t) ==
  IF t = <<>> THEN <<>> ELSE KeyByte(t[1][1]) \o t[1][2] \o EncodeEntries(Tail(t))

BytecodeWith(t) ==
  <<"0", "x", "6", "a">> \o EncodeEntries(t) \o <<"0", "0", "0", HexDigits[2 * Len(t) + 1]>>

\* The compiler has produced bytecode with some trailer.
CompileWithTrailer ==
  /\ pc = "IDLE" /\ compiledBytecode = <<>> /\ located = NOT_RUN
  /\ \E t \in Trailers : trailer' = t /\ compiledBytecode' = BytecodeWith(t)
  /\ UNCHANGED <<located, sourcePath, sanitizedPath, deployedBytecode, status, storeVars,
                 firstRun, pipeVars>>

\* storePerfectMatchData on that bytecode, Injector.ts 179-214: the path of
\* its first save below the repository, or the error it raises.
Locate ==
  /\ compiledBytecode # <<>> /\ located = NOT_RUN
  /\ LET r == storePerfectMatchData(FALSE, "mainnet", "0xAA",
                                    [error |-> "none", deployedBytecode |-> compiledBytecode,
                                     metadata |-> "canonical metadata"], <<>>)
     IN located' = IF r.error # "none" THEN <<r.error>>
                   ELSE SubSeq(r.writes[1].path, 2, Len(r.writes[1].path))
  /\ UNCHANGED <<trailer, sourcePath, sanitizedPath, deployedBytecode, compiledBytecode, status,
                 storeVars, firstRun, pipeVars>>

NextLocate == CompileWithTrailer \/ Locate

SpecLocate == Init /\ [][NextLocate]_vars

\* ------------------------------------------------------ rearrangeSources
\* The descriptors and uploads of SpecAssemble.  A declared source has no
\* inline content, the empty string, or a text; its digest is that of the
\* empty string or of a text; the i-th source of a descriptor has the i-th
\* name.  An upload holds at most MaxFiles of the same contents.
AssembleContents == {"", "contract A", "contract B"}
SourceName(i) == IF i = 1 THEN NameA ELSE IF i = 2 THEN NameB ELSE NameCrafted
DeclaredSources ==
  UNION {{[i \in 1..k |-> Source(SourceName(i), c[i], keccak256(h[i]))] :
            c \in [1..k -> AssembleContents \cup {NO_CONTENT}], h \in [1..k -> AssembleContents]} :
         k \in 0..MaxSources}

\* rearrangeSources is called on a descriptor and an upload, as the legacy
\* inject calls it for the entry its loop is at (injector.ts 369-370).
SubmitForAssembly ==
  /\ pc = "IDLE"
  /\ \E declared \in DeclaredSources, fs \in SeqUpTo(AssembleContents, MaxFiles) :
       /\ files' = fs
       /\ descriptors' = <<[metadata |-> Descriptor("Solidity", <<Target(NameA, "A")>>, declared),
                            solidity |-> <<>>]>>
  /\ legacy' = TRUE /\ idx' = 1 /\ pc' = "ASSEMBLE_SOURCES"
  /\ UNCHANGED <<chain, addresses, bytecode, target, compilationResult, scanned, match, error,
                 writes, reads, compares, compilerCalls, pureVars>>

NextAssemble == SubmitForAssembly \/ AssembleSources

SpecAssemble == Init /\ [][NextAssemble]_vars

\* ------------------------------------- recompile on a compilation target
\* The compilation targets of SpecRecompile: objects of at most MaxTargets
\* pairs in the order of their keys, a key being a file name and its value a
\* contract name, possibly the empty string.
MaxTargets == 2

TargetPairs == {Target(f, c) : f \in {NameA, NameB, NameCrafted}, c \in {"A", "B", ""}}

CompilationTargets ==
  {t \in SeqUpTo(TargetPairs, MaxTargets) :
     \A i, j \in 1..Len(t) : t[i].fileName = t[j].fileName => i = j}

\* The settings of the descriptors of SpecRecompile: with a compilation
\* target, or without the field.
TargetSettings ==
  {Settings(t) : t \in CompilationTargets}
    \cup {[Settings(<<>>) EXCEPT !.hasCompilationTarget = FALSE]}

\* The sources handed to recompile with the descriptor.
TargetSources ==
  {<<[fileName |-> NameA, content |-> "contract A"]>>,
   <<[fileName |-> NameA, content |-> "contract A"],
     [fileName |-> NameB, content |-> "contract B"]>>}

\* inject is at an entry of its loop and is about to copy the target and
\* call recompile on the entry's descriptor (Injector.ts 400-406).
SubmitForRecompile ==
  /\ pc = "IDLE"
  /\ \E st \in TargetSettings, sol \in TargetSources :
       LET entry == [metadata |-> [language |-> "Solidity", settings |-> st,
                                   sources |-> <<Source(NameA, "contract A",
                                                        keccak256("contract A"))>>],
                     solidity |-> sol]
       IN files' = <<entry>> /\ descriptors' = <<entry>>
  /\ legacy' = FALSE /\ idx' = 1 /\ pc' = "COMPILE"
  /\ UNCHANGED <<chain, addresses, bytecode, target, compilationResult, scanned, match, error,
                 writes, reads, compares, compilerCalls, pureVars>>

NextRecompile == SubmitForRecompile \/ Compile

SpecRecompile == Init /\ [][NextRecompile]_vars

\* ------------------------------------------ compareBytecodes on a pair
\* The pairs of SpecComparePair: the deployed bytecode, then the compiled
\* bytecode, each a text of at most MaxPairLen characters over a digit that
\* is zero, a digit that is not, and a character that is no digit.
PairAlphabet == {"0", "1", "x"}

TypePairDeployedChar ==
  /\ status = "not run" /\ compiledBytecode = <<>> /\ Len(deployedBytecode) < MaxPairLen
  /\ \E c \in PairAlphabet : deployedBytecode' = Append(deployedBytecode, c)
  /\ UNCHANGED <<compiledBytecode, status, sourcePath, sanitizedPath, storeVars, firstRun, locateVars, pipeVars>>

TypePairCompiledChar ==
  /\ status = "not run" /\ Len(compiledBytecode) < MaxPairLen
  /\ \E c \in PairAlphabet : compiledBytecode' = Append(compiledBytecode, c)
  /\ UNCHANGED <<deployedBytecode, status, sourcePath, sanitizedPath, storeVars, firstRun, locateVars, pipeVars>>

NextComparePair == TypePairDeployedChar \/ TypePairCompiledChar \/ Compare

SpecComparePair == Init /\ [][NextComparePair]_vars

\* ================================================================ claims
\* The reads of the address scan made for entry d, in the order made.
ReadsOf(d) == SelectSeq(reads, LAMBDA r : r.descriptor = d)

\* The evaluations of compareBytecodes made for entry d.
ComparesOf(d) == SelectSeq(compares, LAMBDA c : c.descriptor = d)

\* The input carries pre-fetched bytecode.
Prefetched == ~legacy /\ bytecode # UNDEFINED /\ bytecode # <<>>

Stored == pc \in {"STORE_FULL", "STORE_PARTIAL"}
Raised(type) == pc = "FAILED" /\ error.type = type

\* The compiled bytecode of the entry the loop is at.
Compiled == compilationResult.deployedBytecode

\* -------------------------------------------------------------------- C1
\* C1: the scan reads the candidates in input order, one read per index; a
\* read follows another of the same entry only if that one compared none;
\* the match returned is the last read's address with exactly its status,
\* non-none, every earlier candidate having compared none, even when the
\* status is partial and a later address would compare perfect; a scan that
\* returns no match has read and compared none on every candidate.
C1_FirstMatchInInputOrder ==
  /\ \A d \in 1..Len(descriptors) :
       LET rs == ReadsOf(d)
       IN /\ Len(rs) <= Len(addresses)
          /\ \A k \in 1..Len(rs) :
               /\ rs[k].index = k
               /\ rs[k].address = toChecksumAddress(addresses[k])
               /\ k < Len(rs) => rs[k].status = NULL_STATUS
  /\ (~Prefetched /\ (Stored \/ Raised("NoMatch"))) =>
       LET rs == ReadsOf(idx)
           n == Len(rs)
       IN /\ n >= 1
          /\ \A k \in 1..n :
               rs[k].status = compareBytecodes(rs[k].deployedBytecode, Compiled)
          /\ \A k \in 1..(n - 1) : rs[k].status = NULL_STATUS
          /\ IF Stored
             THEN /\ match.address = rs[n].address
                  /\ match.status = rs[n].status
                  /\ match.status # NULL_STATUS
             ELSE /\ n = Len(addresses)
                  /\ rs[n].status = NULL_STATUS
                  /\ match = NoMatchYet

\* C1 witness: a partial match is returned for the first candidate while the
\* second, never read, holds code that would compare perfect.
C1_PartialBeforePerfect ==
  /\ pc = "STORE_PARTIAL" /\ ~Prefetched
  /\ Len(ReadsOf(idx)) = 1 /\ Len(addresses) = 2
  /\ match.status = "partial"
  /\ IsAddress(addresses[2])
  /\ compareBytecodes(ChainCode(toChecksumAddress(addresses[2])), Compiled) = "perfect"

\* -------------------------------------------------------------------- C2
\* C2: a read that failed compared none; it is followed by the read of the
\* next candidate of the same entry; while it is the last read, the scan is
\* about to take the next candidate (or has stopped on that candidate's
\* malformed address), or, the failed candidate being the last of the list,
\* the run ended in NoMatch: the failure itself never ends the run.  A match
\* returned after failed reads is the address of a read that succeeded.
C2_ReadFailureIsSkipped ==
  /\ \A j \in 1..Len(reads) :
       reads[j].deployedBytecode = NULL =>
         /\ reads[j].status = NULL_STATUS
         /\ j < Len(reads) =>
              /\ reads[j + 1].descriptor = reads[j].descriptor
              /\ reads[j + 1].index = reads[j].index + 1
         /\ j = Len(reads) =>
              IF reads[j].index < Len(addresses)
              THEN \/ pc = "MATCH" /\ idx = reads[j].descriptor /\ scanned = reads[j].index
                   \/ /\ Raised("InvalidAddress")
                      /\ error.detail = addresses[reads[j].index + 1]
              ELSE Raised("NoMatch")
  /\ (~Prefetched /\ Stored) =>
       LET rs == ReadsOf(idx)
       IN /\ rs[Len(rs)].deployedBytecode # NULL
          /\ rs[Len(rs)].address = match.address

\* C2 witness: the read of the first candidate failed and the second
\* candidate is returned as the match.
C2_MatchAfterFailedRead ==
  /\ Stored /\ ~Prefetched
  /\ Len(ReadsOf(idx)) = 2
  /\ ReadsOf(idx)[1].deployedBytecode = NULL
  /\ match.address = toChecksumAddress(addresses[2])

\* -------------------------------------------------------------------- C3
\* C3: a run that fails at input validation, at the selection or assembly of
\* its inputs, at compilation or at matching has written nothing.
C3_FailureLeavesRepositoryUntouched ==
  (pc = "FAILED" /\ error.type # "MetadataReferenceMissing") => writes = <<>>

\* -------------------------------------------------------------------- C4
\* C4: every content of every input handed to the compiler has the digest
\* the entry declares for its file name, and no input is handed to the
\* compiler for an entry one of whose inline contents differs from its
\* declared digest.
C4_CompiledContentHasDeclaredDigest ==
  /\ \A c \in 1..Len(compilerCalls) :
       LET call == compilerCalls[c]
           declared == descriptors[call.descriptor].metadata.sources
       IN \A e \in 1..Len(call.sources) :
            \E s \in 1..Len(declared) :
               /\ declared[s].fileName = call.sources[e].fileName
               /\ declared[s].keccak256 = keccak256(call.sources[e].content)
  /\ \A d \in 1..Len(descriptors) :
       LET declared == descriptors[d].metadata.sources
       IN (\E s \in 1..Len(declared) :
             /\ Truthy(declared[s].content)
             /\ keccak256(declared[s].content) # declared[s].keccak256)
          => \A c \in 1..Len(compilerCalls) : compilerCalls[c].descriptor # d

\* C4 witness: the second entry of a submission declares a digest its inline
\* content does not have; the run failed on it after compiling the first
\* entry only.
C4_MismatchStopsBeforeCompile ==
  /\ Raised("SourceHashMismatch") /\ idx = 2
  /\ Len(compilerCalls) = 1 /\ compilerCalls[1].descriptor = 1

\* -------------------------------------------------------------------- C5
\* The saves the step being taken adds to the log.
NewWrites == SubSeq(writes', Len(writes) + 1, Len(writes'))

\* C5: the store of a perfect match at address A on chain C (the trailer
\* naming a content address) saves the canonical metadata at the content
\* address and at contracts/full_match/C/A/metadata.json, the same text at
\* both, saves every entry of the SourceSet below
\* contracts/full_match/C/A/sources/, and saves nothing under partial_match.
C5_PerfectMatchStore ==
  [][(pc = "STORE_FULL" /\ ~legacy /\ metadataPath(Compiled) # <<>>) =>
       LET dir == <<Repository, "contracts", "full_match", chain.value, match.address>>
           sources == descriptors[idx].solidity
       IN /\ \E i, j \in 1..Len(NewWrites) :
               /\ NewWrites[i].path = <<Repository>> \o metadataPath(Compiled)
               /\ NewWrites[j].path = Append(dir, "metadata.json")
               /\ NewWrites[i].data = compilationResult.metadata
               /\ NewWrites[j].data = compilationResult.metadata
          /\ \A e \in 1..Len(sources) :
               \E w \in 1..Len(NewWrites) :
                  /\ NewWrites[w].data = sources[e].content
                  /\ IsPrefix(Append(dir, "sources"), NewWrites[w].path)
                  /\ Len(NewWrites[w].path) > Len(dir) + 1
          /\ \A w \in 1..Len(NewWrites) :
               ~IsPrefix(<<Repository, "contracts", "partial_match">>, NewWrites[w].path)
  ]_vars

\* -------------------------------------------------------------------- C6
\* C6: every save made for a partial match at address A on chain C is below
\* contracts/partial_match/C/A/: none at a swarm or ipfs content address,
\* none under full_match.
C6_PartialMatchStore ==
  \A w \in 1..Len(writes) :
     (~legacy /\ writes[w].status = "partial") =>
        IsPrefix(<<Repository, "contracts", "partial_match", chain.value, writes[w].address>>,
                 writes[w].path)

\* -------------------------------------------------------------------- C7
\* compareBytecodes has been evaluated for entry d.
Compared(d) ==
  \/ d < idx
  \/ /\ d = idx
     /\ \/ Stored \/ pc = "DONE"
        \/ pc = "FAILED" /\ error.type \in {"NoMatch", "InvalidAddress",
                                            "MetadataReferenceMissing"}

\* C7: with pre-fetched bytecode in the input no read is ever made, whatever
\* the length of the address list; compareBytecodes is evaluated exactly once
\* for each entry the loop has matched and not at all for the others; and
\* the store taken, or NoMatch, is the result of comparing the pre-fetched
\* bytecode with the entry's compiled bytecode.
C7_PrefetchedBytecodeSkipsScan ==
  Prefetched =>
    /\ reads = <<>>
    /\ \A d \in 1..Len(descriptors) :
         Len(ComparesOf(d)) = IF Compared(d) THEN 1 ELSE 0
    /\ (Stored \/ Raised("NoMatch")) =>
         LET s == compareBytecodes(bytecode, Compiled)
         IN /\ ComparesOf(idx)[1].status = s
            /\ pc = "STORE_FULL" <=> s = "perfect"
            /\ pc = "STORE_PARTIAL" <=> s = "partial"
            /\ Raised("NoMatch") <=> s = NULL_STATUS
            /\ Stored => match = [address |-> toChecksumAddress(addresses[1]), status |-> s]

\* C7 witness: two entries and two addresses were submitted with pre-fetched
\* bytecode, and the second entry is at its store after a partial match.
C7_PrefetchedSecondEntryStored ==
  /\ Prefetched /\ pc = "STORE_PARTIAL"
  /\ idx = 2 /\ Len(addresses) = 2
  /\ Len(compares) = 2 /\ reads = <<>>

\* -------------------------------------------------------------------- C8
\* compilationTarget of entry d as it was submitted.
OriginalTarget(d) ==
  IF legacy THEN findMetadataFiles(files)[d].settings.compilationTarget
  ELSE files[d].metadata.settings.compilationTarget

\* C8: NoMatch is raised only when the match of the entry is none (every
\* candidate was read and compared none, a failed read included; or the
\* pre-fetched bytecode compared none); it carries compilationTarget as the
\* entry had it before recompile and the address list as submitted; a match
\* that is none raises NoMatch and never reaches a store.
C8_NoMatchCarriesTargetAndAddresses ==
  /\ Raised("NoMatch") =>
       /\ error.target = OriginalTarget(idx)
       /\ error.target # <<>>
       /\ error.addresses = addresses
       /\ match.status = NULL_STATUS
       /\ IF Prefetched
          THEN compareBytecodes(bytecode, Compiled) = NULL_STATUS
          ELSE /\ Len(ReadsOf(idx)) = Len(addresses)
               /\ \A k \in 1..Len(addresses) :
                    /\ ReadsOf(idx)[k].address = toChecksumAddress(addresses[k])
                    /\ compareBytecodes(ReadsOf(idx)[k].deployedBytecode, Compiled) = NULL_STATUS
  /\ Stored => match.status \in {"perfect", "partial"} /\ match.address # NULL_ADDRESS
  /\ (~Prefetched /\ idx >= 1 /\ Len(ReadsOf(idx)) >= 1
      /\ Len(ReadsOf(idx)) = Len(addresses)
      /\ ReadsOf(idx)[Len(addresses)].status = NULL_STATUS) => Raised("NoMatch")
  /\ (Prefetched /\ idx >= 1 /\ Len(ComparesOf(idx)) = 1
      /\ ComparesOf(idx)[1].status = NULL_STATUS
      /\ IsAddress(addresses[1])) => Raised("NoMatch")

\* C8 witness: NoMatch was raised for two candidates, the read of the first
\* of which failed, after recompile had deleted compilationTarget from the
\* entry.
C8_NoMatchAfterFailedRead ==
  /\ Raised("NoMatch") /\ ~Prefetched
  /\ Len(addresses) = 2
  /\ ReadsOf(idx)[1].deployedBytecode = NULL
  /\ ~descriptors[idx].metadata.settings.hasCompilationTarget
  /\ error.target # <<>>

\* -------------------------------------------------------------------- C9
\* The sources directory of a match, below which the sources are saved.
SourcesDir == <<Repository, "contracts", "full_match", "mainnet", "0xAA", "sources">>

\* C9: the sanitized file name holds only characters of [a-zA-Z0-9_./-], has
\* no segment made of "." characters only, and the path it is saved at is
\* below the sources directory of the match.
C9_SanitizedNameStaysInSources ==
  sanitizedPath # NOT_RUN =>
    /\ \A i \in 1..Len(sanitizedPath) : sanitizedPath[i] \in AllowedChars
    /\ \A g \in 1..Len(Segments(sanitizedPath)) : ~IsDotOnly(Segments(sanitizedPath)[g])
    /\ IsPrefix(SourcesDir, PathJoin(SourcesDir, sanitizedPath))

\* ------------------------------------------------------------------- C10
\* C10 as stated: comparing a non-empty bytecode with itself is perfect.
C10_SameBytecodeIsPerfect ==
  (status # "not run" /\ deployedBytecode # <<>> /\ compiledBytecode = deployedBytecode)
    => status = "perfect"

\* C10, amended: comparing a bytecode of more than two characters with
\* itself is perfect, whether or not it is long enough to carry a trailer.
C10_SameBytecodeOverTwoCharsIsPerfect ==
  (status # "not run" /\ Len(deployedBytecode) > 2 /\ compiledBytecode = deployedBytecode)
    => status = "perfect"

\* C10 witness: a bytecode of three characters, too short for a trailer, was
\* compared with itself.
C10_ThreeCharsComparedPerfect ==
  /\ status = "perfect" /\ Len(deployedBytecode) = 3
  /\ compiledBytecode = deployedBytecode

ShorterThanDeclaredTrailer(b) ==
  LET n == ParseInt16(SliceLast(b, 4))
  IN n # NaN /\ 2 * n + 4 > Len(b)

\* C17: when either string of a pair is shorter than its own declared
\* trailer, trimming removes no more than the whole string and the pair
\* compares none unless the two strings are identical.
C17_UnderflowComparesNone ==
  (status # "not run"
   /\ (ShorterThanDeclaredTrailer(deployedBytecode)
       \/ ShorterThanDeclaredTrailer(compiledBytecode))) =>
    /\ Len(trimMetadata(deployedBytecode)) <= Len(deployedBytecode)
    /\ Len(trimMetadata(compiledBytecode)) <= Len(compiledBytecode)
    /\ deployedBytecode # compiledBytecode => status = NULL_STATUS

\* ------------------------------------------------------------------- C12
\* The declared digest of a source is satisfied: by its inline content when
\* it has one (the empty string included), by an uploaded file otherwise.
DigestSatisfied(s) ==
  IF s.content # NO_CONTENT THEN keccak256(s.content) = s.keccak256
  ELSE \E f \in 1..Len(files) : keccak256(files[f]) = s.keccak256

InlineMismatch(s) == s.content # NO_CONTENT /\ keccak256(s.content) # s.keccak256

NoUploadedFile(s) ==
  s.content = NO_CONTENT /\ \A f \in 1..Len(files) : keccak256(files[f]) # s.keccak256

\* C12: rearrangeSources, once it has returned or raised for a descriptor
\* and an upload: when every declared digest is satisfied it returns one
\* entry per declared file name, in order, each with the content of the
\* declared digest (so nothing of the upload that the descriptor does not
\* reference); it raises SourceHashMismatch only when some inline content
\* differs from its digest, SourceNotFound only when some digest without
\* inline content is that of no uploaded file, and one of them whenever
\* either is the case.
C12_AssembleReturnsDeclaredOrRaises ==
  (idx = 1 /\ legacy /\ pc \in {"COMPILE", "FAILED"}) =>
    LET declared == descriptors[1].metadata.sources
        sources == descriptors[1].solidity
        all == 1..Len(declared)
    IN /\ (\A i \in all : DigestSatisfied(declared[i])) =>
            /\ pc = "COMPILE"
            /\ Len(sources) = Len(declared)
            /\ \A i \in all :
                 /\ sources[i].fileName = declared[i].fileName
                 /\ keccak256(sources[i].content) = declared[i].keccak256
       /\ Raised("SourceHashMismatch") => \E i \in all : InlineMismatch(declared[i])
       /\ Raised("SourceNotFound") => \E i \in all : NoUploadedFile(declared[i])
       /\ (\E i \in all : InlineMismatch(declared[i]) \/ NoUploadedFile(declared[i]))
            => pc = "FAILED"

\* ------------------------------------------------------------------- C13
\* What one run alone leaves at the path: the data of its last save there.
FinalContent(path) ==
  LET at == {i \in 1..Len(plan) : plan[i].path = path}
  IN plan[CHOOSE i \in at : \A j \in at : j <= i].data

\* C13: while two runs store the same match with their saves interleaved,
\* every path of the repository holds its previous content or the content
\* one run alone leaves there; and when both runs are done every path
\* written holds what one run alone leaves there.
C13_InterleavedStoresAreSafe ==
  /\ \A p \in DOMAIN repo : repo[p] = PreviousContent \/ repo[p] = FinalContent(p)
  /\ (plan # <<>> /\ saved = <<Len(plan), Len(plan)>>) =>
       \A i \in 1..Len(plan) : repo[plan[i].path] = FinalContent(plan[i].path)

\* ------------------------------------------------------------------- C14
\* The reads and the saves of the second run.
SecondRunReads == SubSeq(reads, Len(firstRun.reads) + 1, Len(reads))
SecondRunWrites == SubSeq(writes, Len(firstRun.writes) + 1, Len(writes))

\* The repository after a sequence of saves on an empty one.
RECURSIVE RepoOf(_)
RepoOf(ws) ==
  IF ws = <<>> THEN <<>> ELSE Save(RepoOf(SubSeq(ws, 1, Len(ws) - 1)), ws[Len(ws)])

ValueOf(key) ==
  LET at == {i \in 1..Len(trailer) : trailer[i][1] = key}
  IN IF at = {} THEN <<>> ELSE trailer[CHOOSE i \in at : TRUE][2]

\* C15: the content address is /swarm/bzzr0/<hex> when the trailer has
\* bzzr0, else /swarm/bzzr1/<hex> when it has bzzr1, else /ipfs/<base58>
\* when it has ipfs, whatever other keys it holds and in whatever order; a
\* trailer with none of the three raises MetadataReferenceMissing.
C15_LocateByKeyPriority ==
  located # NOT_RUN =>
    located = IF ValueOf("bzzr0") # <<>> THEN <<"swarm", "bzzr0", Str(ValueOf("bzzr0"))>>
              ELSE IF ValueOf("bzzr1") # <<>> THEN <<"swarm", "bzzr1", Str(ValueOf("bzzr1"))>>
              ELSE IF ValueOf("ipfs") # <<>> THEN <<"ipfs", toB58String(ValueOf("ipfs"))>>
              ELSE <<"MetadataReferenceMissing">>

\* C15 witness: a trailer whose entries are ipfs, bzzr1 and bzzr0, in that
\* order, was located at its bzzr0 value.
C15_Bzzr0WinsWhenLast ==
  /\ Len(trailer) = 3
  /\ trailer[1][1] = "ipfs" /\ trailer[2][1] = "bzzr1" /\ trailer[3][1] = "bzzr0"
  /\ located = <<"swarm", "bzzr0", Str(trailer[3][2])>>

\* ------------------------------------------------------------------- C16
\* Nothing was compiled, read, compared or saved.
NothingDone == compilerCalls = <<>> /\ reads = <<>> /\ compares = <<>> /\ writes = <<>>

AddressListRejected ==
  addresses = <<>> \/ \E i \in 1..Len(addresses) : addresses[i] = NULL_ADDRESS

ChainRejected == chain.type # "string" \/ chain.value = ""

\* C16: a submission whose address list is empty or holds a null entry, or
\* whose chain is absent, empty or no string, ends in an input validation
\* error with nothing compiled, read or saved; the error is that of the
\* address list when both are wrong; and no other submission is rejected so.
C16_InvalidInputRejectedFirst ==
  pc # "IDLE" =>
    /\ AddressListRejected =>
         Raised("InputValidationError") /\ error.detail = "address" /\ NothingDone
    /\ (~AddressListRejected /\ ChainRejected) =>
         Raised("InputValidationError") /\ error.detail = "chain" /\ NothingDone
    /\ Raised("InputValidationError") => AddressListRejected \/ ChainRejected

\* C16 witness: a submission of an entry with a null address after a valid
\* one and with a number as its chain was rejected for its addresses.
C16_NullAddressRejectedBeforeChain ==
  /\ Raised("InputValidationError") /\ error.detail = "address"
  /\ Len(addresses) = 2 /\ addresses[1] # NULL_ADDRESS /\ addresses[2] = NULL_ADDRESS
  /\ chain.type = "number"
  /\ files # <<>>

\* ------------------------------------------------------------------- C18
\* The place of a state in the order of the pipeline.
Rank(state) ==
  CASE state = "IDLE" -> 0
    [] state = "SELECT_METADATA" -> 1
    [] state = "ASSEMBLE_SOURCES" -> 2
    [] state = "COMPILE" -> 3
    [] state = "MATCH" -> 4
    [] state \in {"STORE_FULL", "STORE_PARTIAL"} -> 5
    [] state = "DONE" -> 6
    [] state = "FAILED" -> 7

\* C18: a run never steps from a state of the pipeline to an earlier one:
\* after a store there is no ASSEMBLE_SOURCES, COMPILE or MATCH, also when
\* the submission holds several descriptors.
C18_StatesVisitedInOrder == [][Rank(pc') >= Rank(pc)]_vars

\* ------------------------------------------------------------------- C19
\* The descriptor of entry i as the caller handed it over: the entry of the
\* submission, or the parsed metadata file of the upload.
SubmittedMetadata(i) ==
  IF legacy THEN findMetadataFiles(files)[i] ELSE files[i].metadata

\* C19: every descriptor of a run has, after recompile has returned or
\* failed as before it, the fields the caller gave it, compilationTarget and
\* outputSelection of its settings among them.
C19_DescriptorLeftUnchanged ==
  \A i \in 1..Len(descriptors) : descriptors[i].metadata = SubmittedMetadata(i)

\* ------------------------------------------------------------------- C20
\* The pairs a compilation target resolves to: those that name a contract.
ResolvedPairs(targets) == {i \in 1..Len(targets) : targets[i].contractName # ""}

\* C20: once recompile has returned or failed for a descriptor, if the
\* descriptor's target resolves to no pair or to several, the error is
\* AmbiguousOrMissingTarget and the compiler was not invoked; and if the
\* compiler was invoked, the target resolves to one pair and the output
\* selection is that pair.
C20_TargetResolvesToOnePair ==
  pc \in {"MATCH", "FAILED"} =>
    LET targets == compilationTargetCopy(files[1].metadata)
        pairs == ResolvedPairs(targets)
    IN /\ Cardinality(pairs) # 1 =>
            Raised("AmbiguousOrMissingTarget") /\ compilerCalls = <<>>
       /\ compilerCalls # <<>> =>
            /\ Cardinality(pairs) = 1
            /\ descriptors[1].metadata.settings.outputSelection
                 = <<targets[CHOOSE i \in pairs : TRUE]>>

\* ------------------------------------------------------------------- C21
\* The places in the upload of the files that parse as a document whose
\* language is Solidity, and the k-th of them.
SelectedFiles ==
  {i \in 1..Len(files) :
     files[i] \in DOMAIN MetadataDocs /\ MetadataDocs[files[i]].language = "Solidity"}

SelectedFile(k) ==
  files[CHOOSE i \in SelectedFiles : Cardinality({j \in SelectedFiles : j < i}) = k - 1]

\* C21: once the legacy inject has selected its metadata files, its
\* descriptors are the uploaded files that parse and are Solidity, each once
\* and in the order of the upload, the other files being passed over; and
\* NoMetadataFound is raised exactly when there is no such file, with
\* nothing compiled, read or saved.
C21_SelectsSolidityDocumentsInOrder ==
  (legacy /\ pc \notin {"IDLE", "SELECT_METADATA"} /\ ~Raised("InputValidationError")) =>
    /\ Raised("NoMetadataFound") <=> SelectedFiles = {}
    /\ Raised("NoMetadataFound") => NothingDone /\ descriptors = <<>>
    /\ SelectedFiles # {} =>
         /\ Len(descriptors) = Cardinality(SelectedFiles)
         /\ \A k \in 1..Len(descriptors) :
              /\ descriptors[k].metadata.language = "Solidity"
              /\ descriptors[k].metadata.sources = MetadataDocs[SelectedFile(k)].sources

\* C21 witness: of an upload of a Vyper document and then a Solidity one the
\* legacy inject kept the second alone, and went on to its end.
C21_VyperSkippedSolidityKept ==
  /\ legacy /\ pc = "DONE"
  /\ files = <<"metadata Vyper", "metadata A">>
  /\ Len(descriptors) = 1

\* ------------------------------------------------------------------- C22
\* C22: when the current inject has returned, its match has an address and
\* is perfect or partial, and the run saved for that address; also when the
\* submission held no descriptor.
C22_ReturnedMatchWasStored ==
  (~legacy /\ pc = "DONE") =>
    /\ match.address # NULL_ADDRESS
    /\ match.status \in {"perfect", "partial"}
    /\ \E i \in 1..Len(writes) : writes[i].address = match.address

\* ------------------------------------------------------------------- C23
\* C23: when the store of a perfect match has raised MetadataReferenceMissing,
\* the compiled bytecode's trailer holds none of bzzr0, bzzr1 and ipfs, and
\* nothing was saved for the descriptor the store was for: no metadata file
\* and no source.
C23_MissingReferenceSavesNothing ==
  Raised("MetadataReferenceMissing") =>
    /\ match.status = "perfect"
    /\ metadataPath(compilationResult.deployedBytecode) = <<>>
    /\ \A i \in 1..Len(writes) : writes[i].descriptor # idx

\* C23 witness: the store for the second descriptor of a run raised
\* MetadataReferenceMissing after the first descriptor had been stored.
C23_SecondStoreRaisedAfterFirstSaved ==
  /\ Raised("MetadataReferenceMissing") /\ idx = 2
  /\ writes # <<>>

\* ------------------------------------------------------------------- C24
\* C24: the address scan raises nothing: a run that scans the candidates
\* (it has no pre-fetched bytecode) never ends with the error of a candidate
\* that is no well-formed address.
C24_AddressScanNeverRaises == ~HasBytecode => ~Raised("InvalidAddress")

\* ------------------------------------------------------------------- C25
\* The path of a source of the match: sources/{sanitized(fileName)} in the
\* directory of the match.
StoredSourcePath(fileName) ==
  PathJoin(Append(IF match.status = "perfect"
                  THEN fullMatchDir(legacy, chain.value, match.address)
                  ELSE partialMatchDir(legacy, chain.value, match.address),
                  "sources"),
           sanitize(fileName))

\* C25: after a store, the repository holds, for every entry of the
\* SourceSet, the entry's content at the entry's path; also when two file
\* names of the SourceSet have the same sanitized name.
C25_EverySourceHeldAtItsPath ==
  (pc = "DONE" /\ plan # <<>>) =>
    \A i \in 1..Len(descriptors[1].solidity) :
      LET e == descriptors[1].solidity[i]
      IN /\ StoredSourcePath(e.fileName) \in DOMAIN repo
         /\ repo[StoredSourcePath(e.fileName)] = e.content

\* ------------------------------------------------------------------- C26
\* Within the scan for one descriptor the candidates are read in the order
\* of the list, each at most once.
ReadsInListOrder ==
  \A j, k \in 1..Len(reads) :
    /\ reads[j].index \in 1..Len(addresses)
    /\ (j < k /\ reads[j].descriptor = reads[k].descriptor) => reads[j].index < reads[k].index

\* C26: given that every read returns or fails, a scan reads each candidate
\* at most once and in the order of the list, hence at most as many times as
\* the list is long, with no second read of a candidate; and a run that has
\* come to the scan comes to DONE or to FAILED.
C26_ScanReadsOnceAndTerminates ==
  /\ []ReadsInListOrder
  /\ (pc = "MATCH") ~> (pc \in {"DONE", "FAILED"})

\* C26 witness: a run over two candidates ended after the read of the first
\* had failed and the second had been read, with two reads in all.
C26_FailedReadNotRetried ==
  /\ pc \in {"DONE", "FAILED"}
  /\ Len(addresses) = 2 /\ Len(reads) = 2
  /\ reads[1].index = 1 /\ reads[1].deployedBytecode = NULL
  /\ reads[2].index = 2
====
